---- MODULE Spec2Model ----
(***************************************************************************)
(* GoalWeaver: the goal graph (goalweaver/goal_graph.py), the adaptive     *)
(* planner (goalweaver/planner.py) and the orchestrator loop               *)
(* (goalweaver/runtime.py), as a state machine.                            *)
(*                                                                         *)
(* The graph is a networkx DiGraph.  Its observable behaviour is modelled  *)
(* exactly: `order` is the insertion order of the nodes (DiGraph._node),   *)
(* `succ[n]` the successors of n in insertion order (DiGraph._succ[n]) and *)
(* `goal[n]` the node attribute 'goal' (NoGoal when the node was created   *)
(* by add_edge, or is absent).                                             *)
(***************************************************************************)
EXTENDS Integers, Sequences, FiniteSets, TLC

\* ---------------------------------------------------------------- bounds
MaxGoals == 3
MaxEdges == 2
MaxDeclared == 1
MaxBatch == 2
MaxSubgoals == 1
MaxLogs == 2
MaxMetric == 2
MaxCallers == 2
MaxEvents == 3

\* ------------------------------------------------------- program constants
LOW == 1
MEDIUM == 2
HIGH == 3
CRITICAL == 4
max_idle_loops == 200

PENDING == "pending"
READY == "ready"
IN_PROGRESS == "in_progress"
BLOCKED == "blocked"
DONE == "done"
FAILED == "failed"

GoalStatus == {PENDING, READY, IN_PROGRESS, BLOCKED, DONE, FAILED}
Priority == {LOW, MEDIUM, HIGH, CRITICAL}

Ids == 1..MaxGoals
\* The value of goal[n] for a node without the 'goal' attribute.
NoGoal == [status |-> "nogoal", priority |-> 0, dependencies |-> <<>>]

\* Inputs of the callers: the priorities and the declared dependency lists
\* a Goal is constructed with.
PriorityChoices == {LOW, CRITICAL}
DependencyChoices == {<<>>} \cup {<<d>> : d \in Ids} \cup
                     (IF MaxDeclared >= 2 THEN {<<d, e>> : d \in Ids, e \in Ids} ELSE {})

VARIABLES order, goal, succ, op, err, ret,
          pc, batch_size, idle_loops, batch, task,
          logs, state_file, metrics, subs, file_keys, steps, events,
          mem, disk, lock, at, call

graphVars == <<order, goal, succ>>
callVars == <<op, err, ret>>
\* SharedMemory._lock, and the coroutines that call the store: where each
\* one is in its call, and the call it makes.
lockVars == <<lock, at, call>>
\* The store on its own: SharedMemory._state, the document at its path,
\* and its lock.
storeVars == <<mem, disk, lockVars>>
orchVars == <<pc, batch_size, idle_loops, batch, task, logs, state_file, metrics, subs,
              file_keys, steps, events>>
runVars == <<pc, batch_size, idle_loops, batch, task, logs, state_file, metrics, subs,
             file_keys, steps, events, storeVars>>
vars == <<order, goal, succ, op, err, ret,
          pc, batch_size, idle_loops, batch, task,
          logs, state_file, metrics, subs, file_keys, steps, events,
          mem, disk, lock, at, call>>

\* ------------------------------------------------------------ sequences
Contains(s, x) == \E i \in 1..Len(s) : s[i] = x
Range(s) == {s[i] : i \in 1..Len(s)}
Take(s, k) == IF k >= Len(s) THEN s ELSE SubSeq(s, 1, k)

\* --------------------------------------------------------------- Goal
Goal(prio, deps) == [status |-> PENDING, priority |-> prio, dependencies |-> deps]

\* ------------------------------------------------------------ DiGraph
Nodes(o) == Range(o)
Edges(s) == {e \in Ids \X Ids : Contains(s[e[1]], e[2])}
Preds(s, n) == {u \in Ids : Contains(s[u], n)}

\* DiGraph.add_node: a new node goes to the end of the node order.
AddNode(o, n) == IF Contains(o, n) THEN o ELSE Append(o, n)

\* DiGraph.add_edge(u, v): creates u, then v, when absent; the edge goes to
\* the end of u's adjacency unless it is already there.
AddEdgeOrder(o, u, v) == AddNode(AddNode(o, u), v)
AddEdgeSucc(s, u, v) == IF Contains(s[u], v) THEN s ELSE [s EXCEPT ![u] = Append(@, v)]

InDegree(s, v) == Cardinality(Preds(s, v))

\* nx.topological_generations: one generation.  Walks the nodes of `gen`
\* and their children in adjacency order, decrementing the in-degrees; a
\* child whose in-degree reaches 0 joins the next generation.
RECURSIVE VisitChildren(_, _, _, _)
VisitChildren(children, j, indeg, nxt) ==
    IF j > Len(children) THEN [indeg |-> indeg, nxt |-> nxt]
    ELSE LET c == children[j]
             d == indeg[c] - 1
         IN VisitChildren(children, j + 1, [indeg EXCEPT ![c] = d],
                          IF d = 0 THEN Append(nxt, c) ELSE nxt)

RECURSIVE VisitGeneration(_, _, _, _, _)
VisitGeneration(s, gen, i, indeg, nxt) ==
    IF i > Len(gen) THEN [indeg |-> indeg, nxt |-> nxt]
    ELSE LET r == VisitChildren(s[gen[i]], 1, indeg, nxt)
         IN VisitGeneration(s, gen, i + 1, r.indeg, r.nxt)

RECURSIVE Generations(_, _, _, _)
Generations(s, gen, indeg, acc) ==
    IF gen = <<>> THEN [seq |-> acc, feasible |-> \A v \in Ids : indeg[v] <= 0]
    ELSE LET r == VisitGeneration(s, gen, 1, indeg, <<>>)
         IN Generations(s, r.nxt, r.indeg, acc \o gen)

\* nx.topological_sort(G): the nodes it yields, in order, and whether the
\* generator ends normally (feasible) or raises NetworkXUnfeasible after
\* the last node it could yield.
TopologicalSort(o, s) ==
    LET indeg == [v \in Ids |-> InDegree(s, v)]
        zero == SelectSeq(o, LAMBDA v : indeg[v] = 0)
    IN Generations(s, zero, indeg, <<>>)

\* nx.is_directed_acyclic_graph(G)
IsDAG(o, s) == TopologicalSort(o, s).feasible

\* ------------------------------------------------------------ GoalGraph
\* A test of the predecessors that takes a FAILED one for a finished one.
PredsTerminal_m(g, s, n) == \A p \in Preds(s, n) : g[p] # NoGoal /\ g[p].status \in {DONE, FAILED}

\* all(self.g.nodes[p]["goal"].status == DONE for p in preds)
PredsDone(g, s, n) == \A p \in Preds(s, n) : g[p] # NoGoal /\ g[p].status = DONE

\* A ready_goals loop that offers a FAILED goal again.
RECURSIVE ReadyGoalsRetry_m(_, _, _, _, _)
ReadyGoalsRetry_m(seq, i, g, s, ready) ==
    IF i > Len(seq) THEN [goal |-> g, ready |-> ready, err |-> "none"]
    ELSE LET n == seq[i] IN
         IF g[n] = NoGoal THEN [goal |-> g, ready |-> ready, err |-> "KeyError"]
         ELSE IF g[n].status \in {DONE, IN_PROGRESS}
              THEN ReadyGoalsRetry_m(seq, i + 1, g, s, ready)
         ELSE IF PredsDone(g, s, n)
              THEN ReadyGoalsRetry_m(seq, i + 1, [g EXCEPT ![n].status = READY], s, Append(ready, n))
         ELSE ReadyGoalsRetry_m(seq, i + 1, [g EXCEPT ![n].status = PENDING], s, ready)

\* A ready_goals loop that does not skip IN_PROGRESS goals.
RECURSIVE ReadyGoalsLoop_m(_, _, _, _, _)
ReadyGoalsLoop_m(seq, i, g, s, ready) ==
    IF i > Len(seq) THEN [goal |-> g, ready |-> ready, err |-> "none"]
    ELSE LET n == seq[i] IN
         IF g[n] = NoGoal THEN [goal |-> g, ready |-> ready, err |-> "KeyError"]
         ELSE IF g[n].status \in {DONE, FAILED}
              THEN ReadyGoalsLoop_m(seq, i + 1, g, s, ready)
         ELSE IF PredsDone(g, s, n)
              THEN ReadyGoalsLoop_m(seq, i + 1, [g EXCEPT ![n].status = READY], s, Append(ready, n))
         ELSE ReadyGoalsLoop_m(seq, i + 1, [g EXCEPT ![n].status = PENDING], s, ready)

\* GoalGraph.ready_goals: the loop over the topological order.  A node
\* without a 'goal' attribute raises KeyError where it is reached; the
\* statuses set before that stay set.
RECURSIVE ReadyGoalsLoop(_, _, _, _, _)
ReadyGoalsLoop(seq, i, g, s, ready) ==
    IF i > Len(seq) THEN [goal |-> g, ready |-> ready, err |-> "none"]
    ELSE LET n == seq[i] IN
         IF g[n] = NoGoal THEN [goal |-> g, ready |-> ready, err |-> "KeyError"]
         ELSE IF g[n].status \in {DONE, FAILED, IN_PROGRESS}
              THEN ReadyGoalsLoop(seq, i + 1, g, s, ready)
         ELSE IF PredsDone(g, s, n)
              THEN ReadyGoalsLoop(seq, i + 1, [g EXCEPT ![n].status = READY], s, Append(ready, n))
         ELSE ReadyGoalsLoop(seq, i + 1, [g EXCEPT ![n].status = PENDING], s, ready)

\* GoalGraph.ready_goals(): the statuses it leaves, the list it returns and
\* the exception it raises (then nothing is returned).
ready_goals(o, g, s) ==
    LET t == TopologicalSort(o, s)
        r == ReadyGoalsLoop(t.seq, 1, g, s, <<>>)
    IN IF r.err # "none" THEN [goal |-> r.goal, ready |-> <<>>, err |-> r.err]
       ELSE IF ~t.feasible THEN [goal |-> r.goal, ready |-> <<>>, err |-> "NetworkXUnfeasible"]
       ELSE r

\* A readiness pass that promotes only PENDING goals and demotes the rest.
RECURSIVE RecomputeLoop_m(_, _, _, _)
RecomputeLoop_m(seq, i, g, s) ==
    IF i > Len(seq) THEN [goal |-> g, err |-> "none"]
    ELSE LET n == seq[i] IN
         IF g[n] = NoGoal THEN [goal |-> g, err |-> "KeyError"]
         ELSE IF g[n].status \in {IN_PROGRESS, DONE, FAILED}
              THEN RecomputeLoop_m(seq, i + 1, g, s)
         ELSE IF PredsDone(g, s, n) /\ g[n].status = PENDING
              THEN RecomputeLoop_m(seq, i + 1, [g EXCEPT ![n].status = READY], s)
         ELSE RecomputeLoop_m(seq, i + 1, [g EXCEPT ![n].status = PENDING], s)

\* GoalGraph.recompute_readiness: the loop over the topological order.
RECURSIVE RecomputeLoop(_, _, _, _)
RecomputeLoop(seq, i, g, s) ==
    IF i > Len(seq) THEN [goal |-> g, err |-> "none"]
    ELSE LET n == seq[i] IN
         IF g[n] = NoGoal THEN [goal |-> g, err |-> "KeyError"]
         ELSE IF g[n].status \in {IN_PROGRESS, DONE, FAILED}
              THEN RecomputeLoop(seq, i + 1, g, s)
         ELSE IF PredsDone(g, s, n)
              THEN RecomputeLoop(seq, i + 1, [g EXCEPT ![n].status = READY], s)
         ELSE RecomputeLoop(seq, i + 1, [g EXCEPT ![n].status = PENDING], s)

recompute_readiness(o, g, s) ==
    LET t == TopologicalSort(o, s)
        r == RecomputeLoop(t.seq, 1, g, s)
    IN IF r.err # "none" THEN r
       ELSE IF ~t.feasible THEN [goal |-> r.goal, err |-> "NetworkXUnfeasible"]
       ELSE r

\* GoalGraph.get(goal_id) raises KeyError for an absent node and for a node
\* without a 'goal' attribute.
HasGoal(g, n) == g[n] # NoGoal

\* GoalGraph.set_status
set_status(g, n, st) == [g EXCEPT ![n].status = st]

\* A mark_in_progress without the guard on DONE and FAILED.
mark_in_progress_m(g, n) == set_status(g, n, IN_PROGRESS)

\* GoalGraph.mark_in_progress
mark_in_progress(g, n) ==
    IF g[n].status \notin {DONE, FAILED} THEN set_status(g, n, IN_PROGRESS) ELSE g

\* A mark_done that records DONE whatever the success flag is.
mark_done_m(g, n, success) == set_status(g, n, DONE)

\* GoalGraph.mark_done
mark_done(g, n, success) == set_status(g, n, IF success THEN DONE ELSE FAILED)

\* GoalGraph.goals(): the goals of the nodes in insertion order.
goals(o) == o

\* ------------------------------------------------------ AdaptivePlanner
\* A sort key with the priority ascending.
KeyLess_m(g, a, b) ==
    \/ g[a].priority < g[b].priority
    \/ g[a].priority = g[b].priority /\ Len(g[a].dependencies) < Len(g[b].dependencies)

\* key=lambda g: (-int(g.priority), len(g.dependencies))
KeyLess(g, a, b) ==
    \/ g[a].priority > g[b].priority
    \/ g[a].priority = g[b].priority /\ Len(g[a].dependencies) < Len(g[b].dependencies)

\* list.sort(key=...): stable insertion of each element after the elements
\* that do not rank after it.
RECURSIVE InsertSorted(_, _, _)
InsertSorted(g, sorted, x) ==
    IF sorted = <<>> THEN <<x>>
    ELSE IF KeyLess(g, x, Head(sorted)) THEN <<x>> \o sorted
    ELSE <<Head(sorted)>> \o InsertSorted(g, Tail(sorted), x)

RECURSIVE SortByKey(_, _, _)
SortByKey(g, s, i) ==
    IF i = 0 THEN <<>> ELSE InsertSorted(g, SortByKey(g, s, i - 1), s[i])

\* A planner that returns every ready goal, whatever k is.
next_batch_m(o, g, s, k) ==
    LET r == ready_goals(o, g, s)
    IN [goal |-> r.goal, err |-> r.err,
        batch |-> IF r.err = "none" THEN SortByKey(r.goal, r.ready, Len(r.ready)) ELSE <<>>]

\* AdaptivePlanner.next_batch(k)
next_batch(o, g, s, k) ==
    LET r == ready_goals(o, g, s)
    IN [goal |-> r.goal, err |-> r.err,
        batch |-> IF r.err = "none" THEN Take(SortByKey(r.goal, r.ready, Len(r.ready)), k) ELSE <<>>]

\* GoalGraph.to_state(): the snapshot's goals, or the exception it raises.
RECURSIVE ToStateLoop(_, _, _, _, _)
ToStateLoop(seq, i, g, s, acc) ==
    IF i > Len(seq) THEN [goals |-> acc, err |-> "none"]
    ELSE LET n == seq[i] IN
         IF g[n] = NoGoal THEN [goals |-> acc, err |-> "KeyError"]
         ELSE ToStateLoop(seq, i + 1, g, s,
                  Append(acc, [id |-> n, status |-> g[n].status, dependencies |-> Preds(s, n)]))

\* A snapshot that lists the goals in the order they were inserted.
to_state_m(o, g, s) == ToStateLoop(o, 1, g, s, <<>>)

\* `for n in nx.topological_sort(self.g)`: the entries follow a
\* topological order of the nodes.
to_state(o, g, s) ==
    LET t == TopologicalSort(o, s)
        r == ToStateLoop(t.seq, 1, g, s, <<>>)
    IN IF r.err # "none" THEN r
       ELSE IF ~t.feasible THEN [goals |-> r.goals, err |-> "NetworkXUnfeasible"]
       ELSE r

\* ------------------------------------------------------ the snapshot file
\* The top-level keys of the document at the snapshot path, which the
\* orchestrator and its store share (both default to "state.json").
\* SharedMemory._persist keeps the keys it reads and sets its three.
StoreKeys == {"logs", "artifacts", "metrics"}
PersistKeys(keys) == keys \cup StoreKeys

\* Orchestrator._write_state: write_text(json.dumps(payload)) replaces the
\* document by the payload, whose keys are `goals` and `logs`.
WriteStateKeys(keys) == {"goals", "logs"}

\* ---------------------------------------------------------- SharedMemory
\* Python values a caller hands to the store, by their repr: an int, a
\* list, a tuple, and an object json cannot serialize.
PyValues == {"1", "[1]", "(1,)", "object()"}
LogItems == {"{}"}
\* The lists a caller hands to set("logs", ...): the empty list.
LogLists == {<<>>}
ArtifactNames == {"x"}
MetricNames == {"runs_completed"}
\* The values of `inc: int = 1` a caller passes to bump_metric: the
\* default, and a negative one.
Deltas == {1, -1}

\* json.dump of a value: the JSON text, or TypeError.  A tuple is written
\* as an array.
JsonDump(v) ==
    CASE v = "1" -> "1"
      [] v = "[1]" -> "[1]"
      [] v = "(1,)" -> "[1]"
      [] v = "{}" -> "{}"
      [] OTHER -> "TypeError"

\* json.load of a JSON text: a number is an int, an array a list, an
\* object a dict.
JsonLoad(t) ==
    CASE t = "1" -> "1"
      [] t = "[1]" -> "[1]"
      [] OTHER -> "{}"

\* A Python dict with string keys, as a function on its keys.
EmptyDict == [k \in {} |-> "absent"]
DictSet(d, k, v) == [x \in DOMAIN d \cup {k} |-> IF x = k THEN v ELSE d[x]]
DictGet(d, k, default) == IF k \in DOMAIN d THEN d[k] ELSE default

\* SharedMemory._state after __init__ without a file; `world` stands for
\* the keys callers set that are none of the three namespaces.
EmptyStore == [logs |-> <<>>, artifacts |-> EmptyDict, metrics |-> EmptyDict, world |-> "absent"]

\* The file at state_path: missing, not JSON ("corrupt"), JSON that is no
\* object ("nondict"), or an object ("dict") with its top-level keys:
\* `goals`, an unrelated key `other`, and the three namespaces, each absent,
\* of the type the store expects, or of another type ("other").
MissingFile ==
    [kind |-> "missing", goals |-> "absent", other |-> "absent",
     logs_t |-> "absent", logs |-> <<>>,
     artifacts_t |-> "absent", artifacts |-> EmptyDict,
     metrics_t |-> "absent", metrics |-> EmptyDict]
CorruptFile == [MissingFile EXCEPT !.kind = "corrupt"]
NonDictFile == [MissingFile EXCEPT !.kind = "nondict"]
EmptyDocument == [MissingFile EXCEPT !.kind = "dict"]
\* The file while Path.write_text has it open: open(path, "w") truncated
\* it, and the text is in it only when the file is closed.
PartialFile == [MissingFile EXCEPT !.kind = "partial"]

\* SharedMemory._load_from_disk, on a store just constructed.
LoadFromDisk(d) ==
    IF d.kind # "dict" THEN EmptyStore
    ELSE [logs |-> IF d.logs_t = "list"
                   THEN [i \in 1..Len(d.logs) |-> JsonLoad(d.logs[i])] ELSE <<>>,
          artifacts |-> IF d.artifacts_t = "dict"
                        THEN [n \in DOMAIN d.artifacts |-> JsonLoad(d.artifacts[n])]
                        ELSE EmptyDict,
          metrics |-> IF d.metrics_t = "dict" THEN d.metrics ELSE EmptyDict,
          world |-> "absent"]

\* What the file system does to the write of the temporary file and to
\* os.replace: it performs them, or one of them raises OSError.
DiskFaults == {"none", "OSError"}

\* json.dump(merged, f) raises TypeError on a value it cannot serialize.
Serializable(m) ==
    /\ \A i \in 1..Len(m.logs) : JsonDump(m.logs[i]) # "TypeError"
    /\ \A n \in DOMAIN m.artifacts : JsonDump(m.artifacts[n]) # "TypeError"

\* A persist that writes the three namespaces and nothing it has read.
Persist_m(m, d, fault) ==
    IF fault # "none" THEN [disk |-> d, err |-> fault]
    ELSE IF ~Serializable(m) THEN [disk |-> d, err |-> "TypeError"]
    ELSE [disk |-> [EmptyDocument EXCEPT
                       !.logs_t = "list",
                       !.logs = [i \in 1..Len(m.logs) |-> JsonDump(m.logs[i])],
                       !.artifacts_t = "dict",
                       !.artifacts = [n \in DOMAIN m.artifacts |-> JsonDump(m.artifacts[n])],
                       !.metrics_t = "dict",
                       !.metrics = m.metrics],
          err |-> "none"]

\* A persist whose read of the current document is not best-effort: a
\* file that is not JSON makes it raise.
PersistStrict_m(m, d, fault) ==
    LET current == IF d.kind = "dict" THEN d ELSE EmptyDocument
    IN IF d.kind = "corrupt" THEN [disk |-> d, err |-> "JSONDecodeError"]
       ELSE IF fault # "none" THEN [disk |-> d, err |-> fault]
       ELSE IF ~Serializable(m) THEN [disk |-> d, err |-> "TypeError"]
       ELSE [disk |-> [current EXCEPT
                          !.logs_t = "list",
                          !.logs = [i \in 1..Len(m.logs) |-> JsonDump(m.logs[i])],
                          !.artifacts_t = "dict",
                          !.artifacts = [n \in DOMAIN m.artifacts |-> JsonDump(m.artifacts[n])],
                          !.metrics_t = "dict",
                          !.metrics = m.metrics],
             err |-> "none"]

\* SharedMemory._persist: the document it leaves and the exception it
\* raises.  It reads the current document (an unreadable one counts as
\* empty), sets its three namespaces, writes a temporary file and
\* replaces the document by it.  The write is inside try/finally with no
\* except clause: when open, json.dump or os.replace raises, the temporary
\* file is removed, the document stays and the exception leaves _persist.
Persist(m, d, fault) ==
    LET current == IF d.kind = "dict" THEN d ELSE EmptyDocument
    IN IF fault # "none" THEN [disk |-> d, err |-> fault]
       ELSE IF ~Serializable(m) THEN [disk |-> d, err |-> "TypeError"]
       ELSE [disk |-> [current EXCEPT
                          !.logs_t = "list",
                          !.logs = [i \in 1..Len(m.logs) |-> JsonDump(m.logs[i])],
                          !.artifacts_t = "dict",
                          !.artifacts = [n \in DOMAIN m.artifacts |-> JsonDump(m.artifacts[n])],
                          !.metrics_t = "dict",
                          !.metrics = m.metrics],
             err |-> "none"]

\* The coroutines that call the store concurrently, and the calls they
\* make: [name, arg].
Callers == 1..MaxCallers
Unlocked == 0
NoCall == <<"none", "">>
Calls == {<<"get", "">>, <<"set", "1">>, <<"append_log", "{}">>, <<"record_artifact", "1">>,
          <<"bump_metric", "">>}

\* ------------------------------------------------------------------ Init
NoTask == "none"

Init ==
    /\ order = <<>>
    /\ goal = [n \in Ids |-> NoGoal]
    /\ succ = [n \in Ids |-> <<>>]
    /\ op = "none"
    /\ err = "none"
    /\ ret = <<>>
    /\ pc = "build"
    /\ batch_size = 0
    /\ idle_loops = 0
    /\ batch = <<>>
    /\ task = [n \in Ids |-> NoTask]
    /\ logs = <<>>
    /\ state_file = <<>>
    /\ metrics = 0
    /\ subs = 0
    /\ file_keys = {}
    /\ steps = [n \in Ids |-> <<>>]
    /\ events = <<>>
    /\ mem = EmptyStore
    /\ disk = MissingFile
    /\ lock = Unlocked
    /\ at = [c \in Callers |-> "idle"]
    /\ call = [c \in Callers |-> NoCall]

\* ------------------------------------------------- building the graph
\* Goal ids are opaque (uuid4) and nothing compares them, so the k-th node
\* inserted into the DiGraph is named k: a call that creates a node creates
\* node Len(order) + 1.
NextNode(o, n) == Contains(o, n) \/ n = Len(o) + 1

\* Orchestrator.add_goal: graph.add_goal, then a GOAL_ADDED event is
\* appended to self._events.
OrchAddGoal(id, prio, deps) ==
    /\ pc = "build"
    /\ Len(events) < MaxEvents
    /\ op' = "add_goal"
    /\ NextNode(order, id)
    /\ order' = AddNode(order, id)
    /\ goal' = [goal EXCEPT ![id] = Goal(prio, deps)]
    /\ events' = Append(events, [type |-> "GOAL_ADDED", goal |-> id])
    /\ err' = "none"
    /\ ret' = <<>>
    /\ UNCHANGED <<succ, pc, batch_size, idle_loops, batch, task, logs, state_file, metrics,
                   subs, file_keys, steps, storeVars>>

\* GoalGraph.add_goal
AddGoal(id, prio, deps) ==
    /\ pc = "build"
    /\ op' = "add_goal"
    /\ NextNode(order, id)
    /\ order' = AddNode(order, id)
    /\ goal' = [goal EXCEPT ![id] = Goal(prio, deps)]
    /\ err' = "none"
    /\ ret' = <<>>
    /\ UNCHANGED <<succ, runVars>>

\* GoalGraph.add_dependency / Orchestrator.add_dependency: the edge is
\* inserted, then the assertion is evaluated.
AddDependency(goal_id, depends_on_id) ==
    /\ pc = "build"
    /\ op' = "add_dependency"
    /\ NextNode(order, depends_on_id)
    /\ NextNode(AddNode(order, depends_on_id), goal_id)
    /\ \/ Contains(succ[depends_on_id], goal_id)
       \/ Cardinality(Edges(succ)) < MaxEdges
    /\ order' = AddEdgeOrder(order, depends_on_id, goal_id)
    /\ succ' = AddEdgeSucc(succ, depends_on_id, goal_id)
    /\ err' = IF IsDAG(order', succ') THEN "none" ELSE "AssertionError"
    /\ ret' = <<>>
    /\ UNCHANGED <<goal, runVars>>

\* Orchestrator.add_dependency: graph.add_dependency and nothing else.
OrchAddDependency(goal_id, depends_on_id) ==
    /\ AddDependency(goal_id, depends_on_id)
    /\ events' = events

\* A caller of Orchestrator.add_goal and Orchestrator.add_dependency, and
\* the event log they keep.
NextEvents ==
    \/ \E id \in Ids, deps \in DependencyChoices : OrchAddGoal(id, MEDIUM, deps)
    \/ \E a \in Ids, b \in Ids : OrchAddDependency(a, b)

SpecEvents == Init /\ [][NextEvents]_vars

\* ------------------------------------------- direct calls on the graph
MarkInProgress(id) ==
    /\ pc = "build"
    /\ op' = "mark_in_progress"
    /\ IF HasGoal(goal, id)
       THEN goal' = mark_in_progress(goal, id) /\ err' = "none"
       ELSE goal' = goal /\ err' = "KeyError"
    /\ ret' = <<>>
    /\ UNCHANGED <<order, succ, runVars>>

MarkDone(id, success) ==
    /\ pc = "build"
    /\ op' = "mark_done"
    /\ IF HasGoal(goal, id)
       THEN goal' = mark_done(goal, id, success) /\ err' = "none"
       ELSE goal' = goal /\ err' = "KeyError"
    /\ ret' = <<>>
    /\ UNCHANGED <<order, succ, runVars>>

RecomputeReadiness ==
    /\ pc = "build"
    /\ op' = "recompute_readiness"
    /\ LET r == recompute_readiness(order, goal, succ)
       IN goal' = r.goal /\ err' = r.err
    /\ ret' = <<>>
    /\ UNCHANGED <<order, succ, runVars>>

ReadyGoals ==
    /\ pc = "build"
    /\ op' = "ready_goals"
    /\ LET r == ready_goals(order, goal, succ)
       IN goal' = r.goal /\ err' = r.err /\ ret' = r.ready
    /\ UNCHANGED <<order, succ, runVars>>

NextBatch(k) ==
    /\ pc = "build"
    /\ op' = "next_batch"
    /\ LET r == next_batch(order, goal, succ, k)
       IN goal' = r.goal /\ err' = r.err /\ ret' = r.batch
    /\ UNCHANGED <<order, succ, runVars>>

\* A client of GoalGraph alone; the goals carry the defaults of Goal().
NextGraph ==
    \/ \E id \in Ids : AddGoal(id, MEDIUM, <<>>)
    \/ \E a \in Ids, b \in Ids : AddDependency(a, b)
    \/ \E id \in Ids : MarkInProgress(id)
    \/ \E id \in Ids, success \in BOOLEAN : MarkDone(id, success)
    \/ RecomputeReadiness
    \/ ReadyGoals

SpecGraph == Init /\ [][NextGraph]_vars

\* A client of AdaptivePlanner over independent goals, as in
\* tests/test_planner_properties.py.
NextPlanner ==
    \/ \E id \in Ids, prio \in PriorityChoices, deps \in DependencyChoices : AddGoal(id, prio, deps)
    \/ \E id \in Ids, success \in BOOLEAN : MarkDone(id, success)
    \/ \E k \in 1..MaxBatch : NextBatch(k)

SpecPlanner == Init /\ [][NextPlanner]_vars

\* ------------------------------------------------------ Orchestrator.run
\* async def run(self, *, batch_size)
RunStart(bs) ==
    /\ pc = "build"
    /\ op' = "none"
    /\ pc' = "loop"
    /\ batch_size' = bs
    /\ idle_loops' = 0
    /\ err' = "none"
    /\ ret' = <<>>
    /\ UNCHANGED <<graphVars, batch, task, logs, state_file, metrics, subs, file_keys, steps, events, storeVars>>

\* `pending = [g for g in self.graph.goals() if g.status not in {DONE, FAILED}]`
Pending(o, g) == SelectSeq(goals(o), LAMBDA n : g[n].status \notin {DONE, FAILED})

\* `for g in pending: mark_done(g.id, success=False); append_log(...)`
RECURSIVE StallLoop(_, _, _, _)
StallLoop(pending, i, g, l) ==
    IF i > Len(pending) THEN [goal |-> g, logs |-> l]
    ELSE StallLoop(pending, i + 1, mark_done(g, pending[i], FALSE),
                   Append(l, [goal |-> pending[i], agent |-> "orchestrator",
                              success |-> FALSE, note |-> "stalled/blocked"]))

\* A loop that marks only the first goal of the batch.
MarkBatch_m(b, i, g) ==
    IF b = <<>> THEN g ELSE mark_in_progress(g, b[1])

\* `for g in batch: self.graph.mark_in_progress(g.id)`
RECURSIVE MarkBatch(_, _, _)
MarkBatch(b, i, g) ==
    IF i > Len(b) THEN g ELSE MarkBatch(b, i + 1, mark_in_progress(g, b[i]))

\* The branches of one pass of the while loop.  r is what the readiness
\* pass returned, pending the goals left, nb what the planner returned.
\* recompute_readiness raises: run propagates the exception.
IterCrash(r) ==
    /\ goal' = r.goal
    /\ err' = r.err
    /\ pc' = "crashed"
    /\ UNCHANGED <<order, succ, op, ret, batch_size, idle_loops, batch, task,
                   logs, state_file, metrics, subs, file_keys, steps, events, storeVars>>

\* `if not pending: break`
IterExit(r) ==
    /\ goal' = r.goal
    /\ state_file' = to_state(order, r.goal, succ).goals
    /\ file_keys' = WriteStateKeys(file_keys)
    /\ pc' = "finish"
    /\ UNCHANGED <<order, succ, op, err, ret, batch_size, idle_loops, batch, task,
                   logs, metrics, subs, steps, events, storeVars>>

\* An idle pass during which the failed goals are made PENDING again.
IterIdleRetry_m(r, nb) ==
    /\ idle_loops' = idle_loops + 1
    /\ goal' = [n \in Ids |-> IF nb.goal[n].status = FAILED
                               THEN [nb.goal[n] EXCEPT !.status = PENDING]
                               ELSE nb.goal[n]]
    /\ state_file' = to_state(order, r.goal, succ).goals
    /\ file_keys' = WriteStateKeys(file_keys)
    /\ pc' = "loop"
    /\ UNCHANGED <<order, succ, op, err, ret, batch_size, batch, task, logs, metrics, subs,
                   steps, events, storeVars>>

\* An idle pass that counts twice.
IterIdle_m(r, nb) ==
    /\ idle_loops' = idle_loops + 2
    /\ goal' = nb.goal
    /\ state_file' = to_state(order, r.goal, succ).goals
    /\ file_keys' = WriteStateKeys(file_keys)
    /\ pc' = "loop"
    /\ UNCHANGED <<order, succ, op, err, ret, batch_size, batch, task, logs, metrics, subs,
                   steps, events, storeVars>>

\* `if not batch:` below the threshold: `await asyncio.sleep(0.05)` and
\* `continue`.  No task of the orchestrator is alive during the sleep, so
\* the loop resumes at the readiness pass in the state it slept in.
IterIdle(r, nb) ==
    /\ idle_loops' = idle_loops + 1
    /\ goal' = nb.goal
    /\ state_file' = to_state(order, r.goal, succ).goals
    /\ file_keys' = WriteStateKeys(file_keys)
    /\ pc' = "loop"
    /\ UNCHANGED <<order, succ, op, err, ret, batch_size, batch, task, logs, metrics, subs,
                   steps, events, storeVars>>

\* `if idle_loops >= max_idle_loops:` fail what is left, snapshot, break.
IterStall(pending, nb) ==
    /\ idle_loops' = idle_loops + 1
    /\ LET f == StallLoop(pending, 1, nb.goal, logs)
       IN /\ goal' = f.goal
          /\ logs' = f.logs
          /\ state_file' = to_state(order, f.goal, succ).goals
    /\ file_keys' = WriteStateKeys(PersistKeys(WriteStateKeys(file_keys)))
    /\ pc' = "finish"
    /\ UNCHANGED <<order, succ, op, err, ret, batch_size, batch, task, metrics, subs,
                   steps, events, storeVars>>

\* Batch non-empty: reset the idle counter, mark the batch IN_PROGRESS,
\* snapshot, and create the tasks of asyncio.gather.
IterDispatch(nb) ==
    /\ idle_loops' = 0
    /\ batch' = nb.batch
    /\ LET g1 == MarkBatch(nb.batch, 1, nb.goal)
       IN /\ goal' = g1
          /\ state_file' = to_state(order, g1, succ).goals
    /\ task' = [n \in Ids |-> IF Contains(nb.batch, n) THEN "created" ELSE NoTask]
    /\ file_keys' = WriteStateKeys(file_keys)
    /\ pc' = "gather"
    /\ UNCHANGED <<order, succ, op, err, ret, batch_size, logs, metrics, subs, steps, events, storeVars>>

\* One pass of the while loop of run, from the readiness pass to the
\* branch it takes.
Iterate ==
    /\ pc = "loop"
    /\ LET r == recompute_readiness(order, goal, succ)
           pending == Pending(order, r.goal)
           nb == next_batch(order, r.goal, succ, batch_size)
       IN IF r.err # "none" THEN IterCrash(r)
          ELSE IF pending = <<>> THEN IterExit(r)
          ELSE IF nb.batch # <<>> THEN IterDispatch(nb)
          ELSE IF idle_loops + 1 >= max_idle_loops THEN IterStall(pending, nb)
          ELSE IterIdle(r, nb)

\* ------------------------------------------------- Orchestrator._run_goal
\* steps[n] lists the calls _run_goal has made for goal n, in the order it
\* made them.
Position(b, n) == CHOOSE i \in 1..Len(b) : b[i] = n

\* The task starts: mark_in_progress, snapshot, read `world`, call act.
\* The event loop starts the tasks of a gather in the order of the batch.
TaskStart(n) ==
    /\ pc = "gather"
    /\ task[n] = "created"
    /\ \A i \in 1..(Position(batch, n) - 1) : task[batch[i]] # "created"
    /\ goal' = mark_in_progress(goal, n)
    /\ LET ts == to_state(order, goal', succ)
       IN IF ts.err = "none"
          THEN /\ state_file' = ts.goals
               /\ file_keys' = WriteStateKeys(file_keys)
               /\ task' = [task EXCEPT ![n] = "act"]
               /\ steps' = [steps EXCEPT ![n] = @ \o <<"mark_in_progress", "_write_state", "get", "act">>]
               /\ UNCHANGED <<pc, err>>
          ELSE /\ pc' = "crashed"
               /\ err' = ts.err
               /\ steps' = [steps EXCEPT ![n] = @ \o <<"mark_in_progress", "_write_state">>]
               /\ UNCHANGED <<state_file, file_keys, task>>
    /\ UNCHANGED <<order, succ, op, ret, batch_size, idle_loops, batch, logs, metrics, subs,
                   events, storeVars>>

\* The calls _run_goal makes between the return of act and its await of
\* propose_subgoals, in the order of its statements.
AfterAct == <<"reflect", "mark_done", "append_log", "record_artifact", "_write_state",
              "propose_subgoals">>

\* A run that treats a result with success = False as a fault.
ActReturns_m(n, success) ==
    /\ pc = "gather"
    /\ task[n] = "act"
    /\ goal' = mark_done(goal, n, success)
    /\ logs' = Append(logs, [goal |-> n, agent |-> "agent", success |-> success, note |-> ""])
    /\ IF success
       THEN /\ state_file' = to_state(order, goal', succ).goals
            /\ file_keys' = WriteStateKeys(PersistKeys(PersistKeys(file_keys)))
            /\ task' = [task EXCEPT ![n] = "propose"]
            /\ steps' = [steps EXCEPT ![n] = @ \o AfterAct]
            /\ UNCHANGED <<pc, err>>
       ELSE /\ pc' = "crashed"
            /\ err' = "WorkerFailure"
            /\ UNCHANGED <<state_file, file_keys, task, steps>>
    /\ UNCHANGED <<order, succ, op, ret, batch_size, idle_loops, batch, metrics, subs,
                   events, storeVars>>

\* `result = await agent.act(goal, ctx); await agent.reflect(goal, result)`
\* return (nothing of the orchestrator runs between the two awaits): then
\* mark_done, append_log, record_artifact, snapshot, and propose_subgoals
\* is called.
ActReturns(n, success) ==
    /\ pc = "gather"
    /\ task[n] = "act"
    /\ goal' = mark_done(goal, n, success)
    /\ logs' = Append(logs, [goal |-> n, agent |-> "agent", success |-> success, note |-> ""])
    /\ LET ts == to_state(order, goal', succ)
       IN IF ts.err = "none"
          THEN /\ state_file' = ts.goals
               /\ file_keys' = WriteStateKeys(PersistKeys(PersistKeys(file_keys)))
               /\ task' = [task EXCEPT ![n] = "propose"]
               /\ steps' = [steps EXCEPT ![n] = @ \o AfterAct]
               /\ UNCHANGED <<pc, err>>
          ELSE /\ pc' = "crashed"
               /\ err' = ts.err
               /\ file_keys' = PersistKeys(PersistKeys(file_keys))
               /\ steps' = [steps EXCEPT ![n] = @ \o Take(AfterAct, 5)]
               /\ UNCHANGED <<state_file, task>>
    /\ UNCHANGED <<order, succ, op, ret, batch_size, idle_loops, batch, metrics, subs,
                   events, storeVars>>

\* An insertion of the declared dependencies with the edges turned round.
RECURSIVE SubDependenciesReversed_m(_, _, _, _, _)
SubDependenciesReversed_m(o, s, id, deps, i) ==
    IF i > Len(deps) THEN [order |-> o, succ |-> s, err |-> "none"]
    ELSE LET o1 == AddEdgeOrder(o, id, deps[i])
             s1 == AddEdgeSucc(s, id, deps[i])
         IN IF IsDAG(o1, s1) THEN SubDependenciesReversed_m(o1, s1, id, deps, i + 1)
            ELSE [order |-> o1, succ |-> s1, err |-> "AssertionError"]

\* `for d in sub.dependencies or []: self.add_dependency(sub.id, d)`
RECURSIVE SubDependencies(_, _, _, _, _)
SubDependencies(o, s, id, deps, i) ==
    IF i > Len(deps) THEN [order |-> o, succ |-> s, err |-> "none"]
    ELSE LET o1 == AddEdgeOrder(o, deps[i], id)
             s1 == AddEdgeSucc(s, deps[i], id)
         IN IF IsDAG(o1, s1) THEN SubDependencies(o1, s1, id, deps, i + 1)
            ELSE [order |-> o1, succ |-> s1, err |-> "AssertionError"]

\* An insertion of the subgoals that leaves their dependencies out.
AddSubgoals_m(o, g, s, list, i) ==
    IF list = <<>> THEN [order |-> o, goal |-> g, succ |-> s, err |-> "none"]
    ELSE [order |-> AddNode(o, list[1].id),
          goal |-> [g EXCEPT ![list[1].id] = Goal(list[1].priority, list[1].dependencies)],
          succ |-> s, err |-> "none"]

\* `for sub in subs: self.add_goal(sub); ...`
RECURSIVE AddSubgoals(_, _, _, _, _)
AddSubgoals(o, g, s, list, i) ==
    IF i > Len(list) THEN [order |-> o, goal |-> g, succ |-> s, err |-> "none"]
    ELSE LET sub == list[i]
             o1 == AddNode(o, sub.id)
             g1 == [g EXCEPT ![sub.id] = Goal(sub.priority, sub.dependencies)]
             r == SubDependencies(o1, s, sub.id, sub.dependencies, 1)
         IN IF r.err = "none" THEN AddSubgoals(r.order, g1, r.succ, list, i + 1)
            ELSE [order |-> r.order, goal |-> g1, succ |-> r.succ, err |-> r.err]

\* What a worker may return from propose_subgoals: nothing, or one new goal
\* (a fresh id) with its declared dependencies.
Proposals ==
    {<<>>} \cup
    (IF subs < MaxSubgoals /\ Len(order) < MaxGoals
     THEN {<<[id |-> Len(order) + 1, priority |-> MEDIUM, dependencies |-> deps]>> :
              deps \in DependencyChoices}
     ELSE {})

\* `subs = await agent.propose_subgoals(goal, result)` returns; the subgoals
\* and their declared dependencies are inserted, the RESULT_EMITTED event is
\* appended and the task ends.
ProposeReturns(n, list) ==
    /\ pc = "gather"
    /\ task[n] = "propose"
    /\ subs' = subs + Len(list)
    /\ LET r == AddSubgoals(order, goal, succ, list, 1)
       IN /\ order' = r.order
          /\ goal' = r.goal
          /\ succ' = r.succ
          /\ IF r.err = "none"
             THEN /\ task' = [task EXCEPT ![n] = "finished"]
                  /\ steps' = [steps EXCEPT ![n] = @ \o <<"add_subgoals", "events.append">>]
                  /\ UNCHANGED <<pc, err>>
             ELSE /\ pc' = "crashed"
                  /\ err' = r.err
                  /\ steps' = [steps EXCEPT ![n] = @ \o <<"add_subgoals">>]
                  /\ UNCHANGED task
    /\ UNCHANGED <<op, ret, batch_size, idle_loops, batch, logs, state_file, metrics, file_keys,
                   events, storeVars>>

\* A wait that returns as soon as one task of the batch has ended.
GatherDone_m ==
    /\ pc = "gather"
    /\ \E i \in 1..Len(batch) : task[batch[i]] = "finished"
    /\ pc' = "loop"
    /\ UNCHANGED <<graphVars, callVars, batch_size, idle_loops, batch, task, logs, state_file,
                   metrics, subs, file_keys, steps, events, storeVars>>

\* `await asyncio.gather(*tasks)` returns when every task has ended.
GatherDone ==
    /\ pc = "gather"
    /\ \A i \in 1..Len(batch) : task[batch[i]] = "finished"
    /\ pc' = "loop"
    /\ batch' = <<>>
    /\ task' = [n \in Ids |-> NoTask]
    /\ UNCHANGED <<graphVars, callVars, batch_size, idle_loops, logs, state_file, metrics, subs,
                   file_keys, steps, events, storeVars>>

\* After the loop: bump_metric("runs_completed", 1), final snapshot.
RunFinish ==
    /\ pc = "finish"
    /\ metrics' = metrics + 1
    /\ state_file' = to_state(order, goal, succ).goals
    /\ file_keys' = WriteStateKeys(PersistKeys(file_keys))
    /\ pc' = "done"
    /\ UNCHANGED <<graphVars, callVars, batch_size, idle_loops, batch, task, logs, subs,
                   steps, events, storeVars>>

\* The dependencies declared by all goals but `id`.
RECURSIVE DeclaredBy(_, _)
DeclaredBy(S, g) ==
    IF S = {} THEN 0
    ELSE LET n == CHOOSE m \in S : TRUE
         IN Len(g[n].dependencies) + DeclaredBy(S \ {n}, g)

\* The caller of the orchestrator builds goals that declare at most
\* MaxDeclared dependencies in total, each on the id of another goal
\* (inserted or not).  This specification follows the graph and the run;
\* the event log self._events, which run never reads, is followed in
\* SpecEvents.
Build ==
    \/ /\ pc = "build"
       /\ \E id \in Ids, deps \in DependencyChoices :
             /\ ~Contains(deps, id)
             /\ DeclaredBy(Ids \ {id}, goal) + Len(deps) <= MaxDeclared
             /\ AddGoal(id, MEDIUM, deps)
    \/ \E a \in Ids, b \in Ids : AddDependency(a, b)

RunGoal ==
    \/ \E n \in Ids : TaskStart(n)
    \/ \E n \in Ids, success \in BOOLEAN : ActReturns(n, success)
    \/ \E n \in Ids : \E list \in Proposals : ProposeReturns(n, list)

Run == Iterate \/ RunGoal \/ GatherDone \/ RunFinish

Next ==
    \/ Build
    \/ \E bs \in 1..MaxBatch : RunStart(bs)
    \/ Run

Spec == Init /\ [][Next]_vars

\* ------------------------------------------------- the store on its own
\* Orchestrator._write_state is inside write_text, a synchronous call:
\* nothing else of the program runs until it returns.
Writing == disk.kind = "partial"

\* SharedMemory.set(key, value): `self._state[key] = value` for any key, a
\* key that is none of the namespaces (`world`) or the key `logs`.
StoreSet(key, value) ==
    /\ ~Writing
    /\ op' = "set"
    /\ mem' = IF key = "logs" THEN [mem EXCEPT !.logs = value]
              ELSE [mem EXCEPT !.world = value]
    /\ \E fault \in DiskFaults :
          LET r == Persist(mem', disk, fault) IN disk' = r.disk /\ err' = r.err
    /\ ret' = <<>>
    /\ UNCHANGED <<graphVars, orchVars, lockVars>>

\* SharedMemory.append_log(item)
AppendLog(item) ==
    /\ ~Writing
    /\ Len(mem.logs) < MaxLogs
    /\ op' = "append_log"
    /\ mem' = [mem EXCEPT !.logs = Append(@, item)]
    /\ \E fault \in DiskFaults :
          LET r == Persist(mem', disk, fault) IN disk' = r.disk /\ err' = r.err
    /\ ret' = <<>>
    /\ UNCHANGED <<graphVars, orchVars, lockVars>>

\* SharedMemory.record_artifact(name, value)
RecordArtifact(name, value) ==
    /\ ~Writing
    /\ op' = "record_artifact"
    /\ mem' = [mem EXCEPT !.artifacts = DictSet(@, name, value)]
    /\ \E fault \in DiskFaults :
          LET r == Persist(mem', disk, fault) IN disk' = r.disk /\ err' = r.err
    /\ ret' = <<>>
    /\ UNCHANGED <<graphVars, orchVars, lockVars>>

\* SharedMemory.bump_metric(name, inc); the values followed are those
\* between 0 and MaxMetric.
BumpMetric(name, inc) ==
    /\ ~Writing
    /\ DictGet(mem.metrics, name, 0) + inc <= MaxMetric
    /\ DictGet(mem.metrics, name, 0) + inc >= 0
    /\ op' = "bump_metric"
    /\ mem' = [mem EXCEPT !.metrics = DictSet(@, name, DictGet(@, name, 0) + inc)]
    /\ \E fault \in DiskFaults :
          LET r == Persist(mem', disk, fault) IN disk' = r.disk /\ err' = r.err
    /\ ret' = <<>>
    /\ UNCHANGED <<graphVars, orchVars, lockVars>>

\* SharedMemory.get("world", default)
StoreGet ==
    /\ ~Writing
    /\ op' = "get"
    /\ ret' = <<mem.world>>
    /\ err' = "none"
    /\ UNCHANGED <<graphVars, orchVars, storeVars>>

\* SharedMemory.export_logs(): `list(self._state.get("logs", []))`, a new
\* list with the items of the log.
ExportLogs ==
    /\ ~Writing
    /\ op' = "export_logs"
    /\ ret' = mem.logs
    /\ err' = "none"
    /\ UNCHANGED <<graphVars, orchVars, storeVars>>

\* SharedMemory(state_path=...): a fresh store on the same path.
NewStore ==
    /\ ~Writing
    /\ op' = "new_store"
    /\ mem' = LoadFromDisk(disk)
    /\ err' = "none"
    /\ ret' = <<>>
    /\ UNCHANGED <<graphVars, orchVars, lockVars, disk>>

\* Orchestrator._write_state on the same path, up to the open of
\* write_text: the payload is built and the file is opened for writing at
\* state_path itself, which truncates it.
WriteSnapshotOpen ==
    /\ ~Writing
    /\ op' = "write_open"
    /\ disk' = PartialFile
    /\ err' = "none"
    /\ ret' = <<>>
    /\ UNCHANGED <<graphVars, orchVars, lockVars, mem>>

\* Orchestrator._write_state, the rest of write_text: the text is written
\* and the file closed; the document becomes the payload, `goals` and the
\* logs the store exports.
WriteSnapshot ==
    /\ Writing
    /\ op' = "write_state"
    /\ disk' = [EmptyDocument EXCEPT
                    !.goals = "[]",
                    !.logs_t = "list",
                    !.logs = [i \in 1..Len(mem.logs) |-> JsonDump(mem.logs[i])]]
    /\ err' = "none"
    /\ ret' = <<>>
    /\ UNCHANGED <<graphVars, orchVars, lockVars, mem>>

\* What the store may find at its path: no file, a file that is not JSON,
\* JSON that is no object, and objects with an unrelated key and with
\* namespaces of the expected and of other types.
FoundDocuments ==
    {MissingFile, CorruptFile, NonDictFile,
     [EmptyDocument EXCEPT !.other = "1"],
     [EmptyDocument EXCEPT !.other = "1", !.logs_t = "other", !.metrics_t = "other",
                           !.artifacts_t = "dict", !.artifacts = DictSet(EmptyDict, "x", "[1]")]}

\* The file is left at the path by something else than this store.
FileFound(d) ==
    /\ ~Writing
    /\ op' = "file_found"
    /\ disk' = d
    /\ err' = "none"
    /\ ret' = <<>>
    /\ UNCHANGED <<graphVars, orchVars, lockVars, mem>>

\* Another process (a dashboard) reads the file at the snapshot path.
ReadSnapshot ==
    /\ op' = "read_snapshot"
    /\ ret' = <<disk.kind>>
    /\ err' = "none"
    /\ UNCHANGED <<graphVars, orchVars, storeVars>>

NextStore ==
    \/ \E value \in PyValues : StoreSet("world", value)
    \/ \E value \in LogLists : StoreSet("logs", value)
    \/ StoreGet
    \/ ExportLogs
    \/ \E item \in LogItems : AppendLog(item)
    \/ \E name \in ArtifactNames, value \in PyValues : RecordArtifact(name, value)
    \/ \E name \in MetricNames, inc \in Deltas : BumpMetric(name, inc)
    \/ NewStore
    \/ WriteSnapshotOpen
    \/ WriteSnapshot
    \/ ReadSnapshot
    \/ \E d \in FoundDocuments : FileFound(d)

SpecStore == Init /\ [][NextStore]_vars

\* ------------------------------------------- concurrent calls of the store
\* Each operation of the store is `async with self._lock:` around its
\* statements.  Every await is a point at which the event loop may run
\* another task, so a call is a sequence of steps: the call is made, the
\* lock is acquired, the state is read or changed, _persist is awaited,
\* and the lock is released when the block is left.  These are get, set,
\* append_log, record_artifact and bump_metric; export_logs and the `logs`
\* property are plain methods without an await and take no lock.
Call(c, o) ==
    /\ ~Writing
    /\ at[c] = "idle"
    /\ o[1] = "append_log" => Len(mem.logs) < MaxLogs
    /\ o[1] = "bump_metric" => DictGet(mem.metrics, "runs_completed", 0) < MaxMetric
    /\ at' = [at EXCEPT ![c] = "acquire"]
    /\ call' = [call EXCEPT ![c] = o]
    /\ op' = o[1]
    /\ err' = "none"
    /\ ret' = <<>>
    /\ UNCHANGED <<graphVars, orchVars, mem, disk, lock>>

\* A lock that is handed to whoever asks for it.
Acquire_m(c) ==
    /\ at[c] = "acquire"
    /\ lock' = c
    /\ at' = [at EXCEPT ![c] = "locked"]
    /\ UNCHANGED <<graphVars, callVars, orchVars, mem, disk, call>>

\* `async with self._lock:` is entered: asyncio.Lock.acquire returns when
\* no other task holds the lock.
Acquire(c) ==
    /\ at[c] = "acquire"
    /\ lock = Unlocked
    /\ lock' = c
    /\ at' = [at EXCEPT ![c] = "locked"]
    /\ UNCHANGED <<graphVars, callVars, orchVars, mem, disk, call>>

\* The statement of the operation that reads or changes self._state.
Mutation(m, o) ==
    CASE o[1] = "set" -> [m EXCEPT !.world = o[2]]
      [] o[1] = "append_log" -> [m EXCEPT !.logs = Append(@, o[2])]
      [] o[1] = "record_artifact" -> [m EXCEPT !.artifacts = DictSet(@, "x", o[2])]
      [] o[1] = "bump_metric" ->
            [m EXCEPT !.metrics = DictSet(@, "runs_completed",
                                          DictGet(@, "runs_completed", 0) + 1)]
      [] OTHER -> m

Mutate(c) ==
    /\ at[c] = "locked"
    /\ mem' = Mutation(mem, call[c])
    /\ IF call[c][1] = "get"
       THEN at' = [at EXCEPT ![c] = "release"] /\ ret' = <<mem.world>>
       ELSE at' = [at EXCEPT ![c] = "persist"] /\ ret' = <<>>
    /\ UNCHANGED <<graphVars, op, err, orchVars, disk, lock, call>>

\* `await self._persist()` inside the block.
PersistCall(c) ==
    /\ at[c] = "persist"
    /\ \E fault \in DiskFaults :
          LET r == Persist(mem, disk, fault) IN disk' = r.disk /\ err' = r.err
    /\ at' = [at EXCEPT ![c] = "release"]
    /\ UNCHANGED <<graphVars, op, ret, orchVars, mem, lock, call>>

\* The block is left, by return or by an exception: the lock is released.
Release(c) ==
    /\ at[c] = "release"
    /\ lock' = Unlocked
    /\ at' = [at EXCEPT ![c] = "idle"]
    /\ call' = [call EXCEPT ![c] = NoCall]
    /\ UNCHANGED <<graphVars, callVars, orchVars, mem, disk>>

NextLock ==
    \/ \E c \in Callers, o \in Calls : Call(c, o)
    \/ \E c \in Callers : Acquire(c)
    \/ \E c \in Callers : Mutate(c)
    \/ \E c \in Callers : PersistCall(c)
    \/ \E c \in Callers : Release(c)

SpecLock == Init /\ [][NextLock]_vars

\* ================================================================ claims
Terminal == {DONE, FAILED}
GoalNodes == {n \in Nodes(order) : HasGoal(goal, n)}

\* C1: an add_dependency call that closes a cycle in an acyclic graph is
\* rejected and leaves the graph as it was: the same nodes and the same
\* edges after the failed call as before it.
C1_RejectedDependencyLeavesGraph ==
    [][\A a \in Ids, b \in Ids :
          (IsDAG(order, succ) /\ AddDependency(a, b) /\ err' = "AssertionError")
          => (order' = order /\ succ' = succ)]_vars

\* C2: in every reachable state the dependency edges form a directed
\* acyclic graph.
C2_AlwaysAcyclic == IsDAG(order, succ)

\* C3: a goal is IN_PROGRESS (or in the hands of a worker) only when every
\* id listed in its `dependencies` is a goal whose status is DONE.
C3_DeclaredDependenciesDone ==
    \A n \in GoalNodes :
        (goal[n].status = IN_PROGRESS \/ task[n] = "act")
        => \A d \in Range(goal[n].dependencies) : HasGoal(goal, d) /\ goal[d].status = DONE

\* C4: recompute_readiness leaves IN_PROGRESS, DONE and FAILED goals as they
\* are and sets every other goal to READY when all its predecessors are
\* DONE and to PENDING otherwise.
C4_RecomputeSetsReadiness ==
    [][RecomputeReadiness =>
          \A n \in GoalNodes :
              goal'[n].status =
                  IF goal[n].status \in {IN_PROGRESS, DONE, FAILED} THEN goal[n].status
                  ELSE IF \A p \in Preds(succ, n) : HasGoal(goal, p) /\ goal[p].status = DONE
                       THEN READY
                       ELSE PENDING]_vars

\* C5: recompute_readiness is idempotent: a second pass right after a first
\* one leaves every goal with the status the first pass left.
C5_RecomputeIdempotent ==
    LET first == recompute_readiness(order, goal, succ)
        second == recompute_readiness(order, first.goal, succ)
    IN second.goal = first.goal /\ second.err = first.err

\* A pass has just run on a graph with a goal it made READY and a goal it
\* keeps PENDING behind a predecessor that is not DONE.
C5_Witness ==
    /\ op = "recompute_readiness"
    /\ err = "none"
    /\ \E n \in GoalNodes : goal[n].status = READY
    /\ \E n \in GoalNodes : goal[n].status = PENDING /\ Preds(succ, n) # {}

\* C6: ready_goals leaves the statuses recompute_readiness leaves and
\* returns exactly the goals that pass makes READY: the goals that are not
\* IN_PROGRESS, DONE or FAILED and whose predecessors are all DONE.  A goal
\* behind a predecessor that is not DONE is not returned.
C6_ReadyGoalsMatchesRecompute ==
    LET rg == ready_goals(order, goal, succ)
        rc == recompute_readiness(order, goal, succ)
    IN /\ rg.goal = rc.goal
       /\ rg.err = rc.err
       /\ rg.err = "none" =>
             \A n \in Ids :
                 Contains(rg.ready, n) <=>
                     /\ n \in GoalNodes
                     /\ goal[n].status \notin {IN_PROGRESS, DONE, FAILED}
                     /\ \A p \in Preds(succ, n) : goal[p].status = DONE
       /\ (op = "ready_goals" /\ err = "none") =>
             \A n \in Ids :
                 Contains(ret, n) <=> (n \in GoalNodes /\ goal[n].status = READY)

\* ready_goals has just returned a goal whose predecessors have all been
\* marked DONE, and has left out a goal that waits for a predecessor.
C6_Witness ==
    /\ op = "ready_goals"
    /\ err = "none"
    /\ \E n \in Range(ret) :
          /\ Preds(succ, n) # {}
          /\ \A p \in Preds(succ, n) : goal[p].status = DONE
    /\ \E n \in GoalNodes :
          /\ ~Contains(ret, n)
          /\ goal[n].status = PENDING
          /\ \E p \in Preds(succ, n) : goal[p].status # DONE

\* (priority descending, dependency count ascending): a ranks before b.
RanksBefore(a, b) ==
    \/ a.priority > b.priority
    \/ a.priority = b.priority /\ Len(a.dependencies) < Len(b.dependencies)

ReadyNodes(g) == {n \in Ids : g[n].status = READY}

C8_RunReturnsAllTerminal ==
    /\ pc # "crashed"
    /\ pc = "done" =>
          \A n \in Nodes(order) : HasGoal(goal, n) /\ goal[n].status \in Terminal

NonTerminal == {n \in GoalNodes : goal[n].status \notin Terminal}
Dispatchable ==
    {n \in GoalNodes : /\ goal[n].status \notin {IN_PROGRESS, DONE, FAILED}
                       /\ \A p \in Preds(succ, n) : goal[p].status = DONE}

\* C9: a loop iteration that finds work left and nothing to dispatch adds 1
\* to the idle counter; below max_idle_loops the loop goes back to the
\* readiness pass and fails no goal; at max_idle_loops every goal left is
\* FAILED, the log grows by exactly one "stalled" entry per such goal, the
\* snapshot shows them failed and run leaves the loop and ends.  An
\* iteration that dispatches a batch sets the counter to 0.
C9_StallPolicy ==
    [][/\ (pc = "loop" /\ pc' # "crashed" /\ NonTerminal # {} /\ Dispatchable = {}) =>
             /\ idle_loops' = idle_loops + 1
             /\ idle_loops' < max_idle_loops =>
                   /\ pc' = "loop"
                   /\ logs' = logs
                   /\ \A n \in NonTerminal : goal'[n].status \notin Terminal
             /\ idle_loops' >= max_idle_loops =>
                   /\ pc' = "finish"
                   /\ \A n \in NonTerminal : goal'[n].status = FAILED
                   /\ Len(logs') = Len(logs) + Cardinality(NonTerminal)
                   /\ SubSeq(logs', 1, Len(logs)) = logs
                   /\ \A n \in NonTerminal :
                         \E i \in (Len(logs) + 1)..Len(logs') :
                             /\ logs'[i].goal = n
                             /\ logs'[i].note = "stalled/blocked"
                             /\ logs'[i].success = FALSE
                   /\ \A n \in NonTerminal :
                         \E i \in 1..Len(state_file') :
                             state_file'[i].id = n /\ state_file'[i].status = FAILED
       /\ (pc = "loop" /\ pc' # "crashed" /\ NonTerminal # {} /\ Dispatchable # {}) =>
             idle_loops' = 0 /\ pc' = "gather"
       /\ pc = "finish" => pc' = "done"]_vars

\* run has ended through the stall policy: the counter stands at the
\* threshold and a goal was failed with a "stalled" entry.
C9_Witness ==
    /\ pc = "done"
    /\ idle_loops = max_idle_loops
    /\ \E i \in 1..Len(logs) :
          logs[i].note = "stalled/blocked" /\ goal[logs[i].goal].status = FAILED

\* Goal b depends on an id that is no goal of the graph, by its declared
\* `dependencies` or by an edge of add_dependency.
MissingDependency(b) ==
    \E a \in Range(goal[b].dependencies) \cup Preds(succ, b) : ~HasGoal(goal, a)

\* C10: a goal that depends on a goal that was never inserted is not
\* dispatched; run does not abort, and when it has returned the goal is
\* FAILED by the stall policy.
C10_MissingDependencyStalls ==
    pc # "build" =>
        \A b \in GoalNodes :
            MissingDependency(b) =>
                /\ goal[b].status \notin {IN_PROGRESS, DONE}
                /\ task[b] = NoTask
                /\ pc # "crashed"
                /\ pc = "done" => (goal[b].status = FAILED /\ idle_loops = max_idle_loops)

\* The scenario of the end-to-end run: no edge, no declared dependency, no
\* subgoal proposed, every worker result a success, and a batch size that
\* takes every goal.
Independent ==
    /\ Edges(succ) = {}
    /\ \A n \in Nodes(order) : goal[n].dependencies = <<>>
WorkersSucceed == \A i \in 1..Len(logs) : logs[i].success
EndToEnd ==
    /\ Independent
    /\ WorkersSucceed
    /\ subs = 0
    /\ order # <<>>
    /\ batch_size >= Len(order)

\* C11: with independent goals, workers that succeed and propose nothing,
\* and a batch size of at least the number of goals, the first pass of the
\* loop marks every goal IN_PROGRESS and creates a task for each of them in
\* one step; run does not abort; once all are DONE the next pass leaves the
\* loop; and when run has returned every goal is DONE, no idle pass was
\* counted, and the snapshot lists every goal once with status "done".
C11_EndToEnd ==
    /\ [][(pc = "loop" /\ EndToEnd /\ \A n \in Nodes(order) : goal[n].status = PENDING) =>
             /\ pc' = "gather"
             /\ Range(batch') = Nodes(order)
             /\ \A n \in Nodes(order) : goal'[n].status = IN_PROGRESS /\ task'[n] = "created"]_vars
    /\ [][(pc = "loop" /\ EndToEnd /\ \A n \in Nodes(order) : goal[n].status = DONE) =>
             pc' = "finish"]_vars
    /\ [](EndToEnd => pc # "crashed")
    /\ []((pc = "done" /\ EndToEnd) =>
             /\ \A n \in Nodes(order) : goal[n].status = DONE
             /\ idle_loops = 0
             /\ Len(state_file) = Len(order)
             /\ \A n \in Nodes(order) :
                   \E i \in 1..Len(state_file) :
                       state_file[i].id = n /\ state_file[i].status = DONE)

\* run(batch_size=2) has returned on two independent goals that both
\* succeeded, and the snapshot shows both done.
C11_Witness ==
    /\ pc = "done"
    /\ EndToEnd
    /\ Len(order) = 2
    /\ batch_size = 2
    /\ Len(logs) = 2
    /\ \A i \in 1..2 : state_file[i].status = DONE

\* C12: a goal that is DONE or FAILED keeps that status through every
\* later operation on the graph.
C12_TerminalStatusKept ==
    [][\A n \in GoalNodes :
          goal[n].status \in Terminal => goal'[n].status = goal[n].status]_vars

\* The place of a status on the path PENDING, READY, IN_PROGRESS, then DONE
\* or FAILED.
StatusRank(st) ==
    IF st \in {PENDING, BLOCKED} THEN 0
    ELSE IF st = READY THEN 1
    ELSE IF st = IN_PROGRESS THEN 2
    ELSE 3

\* C13: no operation moves a goal's status backwards (READY to PENDING,
\* IN_PROGRESS to READY or PENDING, a terminal status to a non-terminal
\* one), and a goal becomes IN_PROGRESS only from READY.
C13_StatusMovesForward ==
    [][\A n \in GoalNodes :
          /\ StatusRank(goal'[n].status) >= StatusRank(goal[n].status)
          /\ (goal'[n].status = IN_PROGRESS /\ goal[n].status # IN_PROGRESS)
                => goal[n].status = READY]_vars

\* C14: add_goal with the id of a goal that is already in the graph fails
\* and leaves the goal, its status and the edges as they were.
C14_DuplicateGoalRejected ==
    [][\A id \in Ids :
          (HasGoal(goal, id) /\ AddGoal(id, MEDIUM, <<>>))
          => (err' # "none" /\ goal' = goal /\ order' = order /\ succ' = succ)]_vars

\* C15: add_dependency with an id that is no goal of the graph fails and
\* adds no node and no edge, and every node of the graph carries a goal.
C15_UnknownGoalRejected ==
    /\ [][\A a \in Ids, b \in Ids :
             (AddDependency(a, b) /\ (~HasGoal(goal, a) \/ ~HasGoal(goal, b)))
             => (err' # "none" /\ order' = order /\ succ' = succ)]_vars
    /\ [](\A n \in Nodes(order) : HasGoal(goal, n))

\* C16: mark_in_progress sets the goal to IN_PROGRESS unless it is DONE or
\* FAILED, which it leaves; it touches no other goal, and a second call
\* changes nothing the first call left.
C16_MarkInProgressGuarded ==
    [][\A id \in Ids :
          (MarkInProgress(id) /\ HasGoal(goal, id)) =>
              /\ err' = "none"
              /\ goal'[id].status =
                    IF goal[id].status \in Terminal THEN goal[id].status ELSE IN_PROGRESS
              /\ \A n \in Ids \ {id} : goal'[n] = goal[n]
              /\ goal'[id].priority = goal[id].priority
              /\ goal'[id].dependencies = goal[id].dependencies
              /\ mark_in_progress(goal', id) = goal'
              /\ order' = order /\ succ' = succ]_vars

\* mark_in_progress has been called in a graph that holds a goal it made
\* IN_PROGRESS and a goal that stays DONE.
C16_Witness ==
    /\ op = "mark_in_progress"
    /\ err = "none"
    /\ \E n \in GoalNodes : goal[n].status = IN_PROGRESS
    /\ \E n \in GoalNodes : goal[n].status = DONE

\* A worker has returned a result with success = False.
WorkerFailed == \E i \in 1..Len(logs) : logs[i].agent = "agent" /\ ~logs[i].success

\* C17: a worker result with success = False sets that goal, and no other,
\* to FAILED and leaves the other tasks of the batch as they are; it aborts
\* run only where the snapshot of the graph would raise for a success as
\* well; the subgoals a failed goal proposes are inserted, PENDING, with
\* their declared edges (unless add_dependency rejects one of them, which
\* ends the run); and a pass of the loop that follows a failure dispatches
\* what is ready.
C17_WorkerFailureIsData ==
    /\ [][\A n \in Ids :
             ActReturns(n, FALSE) =>
                 /\ goal'[n].status = FAILED
                 /\ \A m \in Ids \ {n} : goal'[m] = goal[m] /\ task'[m] = task[m]
                 /\ pc' = "crashed" => to_state(order, goal, succ).err # "none"
                 /\ pc' # "crashed" => (pc' = "gather" /\ task'[n] = "propose")]_vars
    /\ [][\A n \in Ids : \A list \in Proposals :
             (goal[n].status = FAILED /\ ProposeReturns(n, list)) =>
                 \A i \in 1..Len(list) :
                     /\ Contains(order', list[i].id)
                     /\ HasGoal(goal', list[i].id)
                     /\ goal'[list[i].id].status = PENDING
                     /\ pc' # "crashed" =>
                           \A d \in Range(list[i].dependencies) :
                               Contains(succ'[d], list[i].id)]_vars
    /\ [][(pc = "loop" /\ WorkerFailed /\ Dispatchable # {} /\ pc' # "crashed") =>
             /\ pc' = "gather"
             /\ batch' # <<>>
             /\ Range(batch') \subseteq Dispatchable
             /\ \A n \in Range(batch') : task'[n] = "created"]_vars

\* run has returned after a worker failed, a subgoal was inserted and a
\* goal was dispatched after the failure.
C17_Witness ==
    /\ pc = "done"
    /\ subs = 1
    /\ \E i \in 1..Len(logs) : \E j \in (i + 1)..Len(logs) :
          /\ logs[i].agent = "agent" /\ ~logs[i].success
          /\ logs[j].agent = "agent"
          /\ goal[logs[i].goal].status = FAILED

\* C18: the orchestrator and the store, writing the same file, keep each
\* other's keys: once the store has persisted (a log entry was appended,
\* or run has bumped its metric and returned) the file holds `artifacts`
\* and `metrics` next to `goals` and `logs`.
C18_DisjointNamespaces ==
    (pc = "done" \/ logs # <<>>) =>
        {"goals", "logs", "artifacts", "metrics"} \subseteq file_keys

\* C19: when record_artifact(name, v) has returned, a fresh store on the
\* same path loads artifacts[name] = v and the logs and metrics the store
\* held, and the `goals` key and an unrelated key that were in the document
\* before are in it with the same values.
C19_StoreRoundTrip ==
    [][\A name \in ArtifactNames, v \in PyValues :
          (RecordArtifact(name, v) /\ err' = "none") =>
              LET fresh == LoadFromDisk(disk')
              IN /\ name \in DOMAIN fresh.artifacts
                 /\ fresh.artifacts[name] = v
                 /\ fresh.logs = mem'.logs
                 /\ fresh.metrics = mem'.metrics
                 /\ disk.kind = "dict" =>
                       (disk'.other = disk.other /\ disk'.goals = disk.goals)]_vars

\* The documents before and after a step agree on every key the store
\* does not own.
OtherKeysKept ==
    disk.kind = "dict" =>
        /\ disk'.kind = "dict"
        /\ disk'.goals = disk.goals
        /\ disk'.other = disk.other

\* C20: a persist (by set, append_log, record_artifact or bump_metric)
\* leaves every top-level key other than logs, artifacts and metrics in
\* the document with its value, adds no such key, and when it has written
\* the three namespaces hold what the store holds; a fresh store adopts
\* from the document the three namespaces and nothing else.
C20_PersistOwnsThreeKeys ==
    /\ [][op' \in {"set", "append_log", "record_artifact", "bump_metric"} =>
             /\ OtherKeysKept
             /\ disk.kind # "dict" =>
                   (disk' = disk \/ (disk'.goals = "absent" /\ disk'.other = "absent"))
             /\ err' = "none" =>
                   /\ disk'.kind = "dict"
                   /\ disk'.logs_t = "list"
                   /\ disk'.artifacts_t = "dict"
                   /\ disk'.metrics_t = "dict"
                   /\ disk'.logs = [i \in 1..Len(mem'.logs) |-> JsonDump(mem'.logs[i])]
                   /\ disk'.artifacts = [n \in DOMAIN mem'.artifacts |-> JsonDump(mem'.artifacts[n])]
                   /\ disk'.metrics = mem'.metrics]_vars
    /\ [][op' = "new_store" =>
             /\ disk' = disk
             /\ mem'.world = "absent"
             /\ mem'.logs # <<>> => (disk.kind = "dict" /\ disk.logs_t = "list")
             /\ mem'.artifacts # EmptyDict => (disk.kind = "dict" /\ disk.artifacts_t = "dict")
             /\ mem'.metrics # EmptyDict => (disk.kind = "dict" /\ disk.metrics_t = "dict")]_vars

\* A persist has written the three namespaces into a document that holds
\* `goals` and an unrelated key.
C20_Witness ==
    /\ op \in {"set", "append_log", "record_artifact", "bump_metric"}
    /\ err = "none"
    /\ disk.kind = "dict"
    /\ disk.other # "absent"
    /\ disk.artifacts_t = "dict"
    /\ disk.artifacts # EmptyDict
    /\ disk.logs # <<>>

\* The operations of the store that change its state and persist it.
StoreMutators == {"set", "append_log", "record_artifact", "bump_metric"}

\* C21: a persist whose write fails does not abort the operation that
\* triggered it: every set, append_log, record_artifact and bump_metric
\* returns normally to its caller, and its update of the in-memory state
\* is applied.
C21_FailedPersistReturns ==
    [][/\ op' \in StoreMutators => err' = "none"
       /\ \A value \in PyValues : StoreSet("world", value) => mem'.world = value
       /\ \A item \in LogItems : AppendLog(item) => mem'.logs = Append(mem.logs, item)
       /\ \A name \in ArtifactNames, value \in PyValues :
             RecordArtifact(name, value) => mem'.artifacts[name] = value
       /\ \A name \in MetricNames :
             BumpMetric(name, 1) => mem'.metrics[name] = DictGet(mem.metrics, name, 0) + 1]_vars

\* C22: a reader of the file at the snapshot path never finds a partially
\* written document there, whenever it reads: the content of the path
\* changes only from one fully written document to the next.
C22_NoPartialDocument ==
    /\ [][op' = "read_snapshot" => ret' # <<"partial">>]_vars
    /\ [](disk.kind # "partial")

\* The position of goal n in a snapshot's `goals`, 0 when it has no entry.
EntryOf(sn, n) ==
    IF \E i \in 1..Len(sn) : sn[i].id = n
    THEN CHOOSE i \in 1..Len(sn) : sn[i].id = n
    ELSE 0

\* `goals` lists each goal of graph (o, g) once, with its status in g, and
\* after every goal its entry names in `dependencies`.
TopologicalSnapshot(sn, o, g) ==
    /\ Len(sn) = Cardinality({n \in Nodes(o) : HasGoal(g, n)})
    /\ \A n \in Nodes(o) : HasGoal(g, n) => EntryOf(sn, n) > 0
    /\ \A i \in 1..Len(sn) :
          /\ sn[i].status = g[sn[i].id].status
          /\ \A d \in sn[i].dependencies :
                /\ EntryOf(sn, d) > 0
                /\ EntryOf(sn, d) < i

\* C23: every snapshot the orchestrator writes lists in `goals` every goal
\* of the graph exactly once, with the status the goal has, and each goal
\* after all the goals its `dependencies` names.
C23_SnapshotIsTopological ==
    [][state_file' # state_file => TopologicalSnapshot(state_file', order', goal')]_vars

\* A snapshot of three goals, one of which was inserted before the goal it
\* depends on, has been written.
C23_Witness ==
    /\ Len(state_file) = 3
    /\ \E i \in 1..3 : \E d \in state_file[i].dependencies : d > state_file[i].id

\* run left its loop through the stall policy: the idle counter reached
\* the threshold.
Stalled == idle_loops >= max_idle_loops

\* C24: run bumps the runs-completed metric by exactly 1 and writes a
\* final snapshot when it ends because no non-terminal goal is left, and
\* leaves the metric as it was when it ends through the stall policy.
C24_MetricCountsNaturalCompletions ==
    [][RunFinish =>
          /\ state_file' = to_state(order, goal, succ).goals
          /\ metrics' = IF Stalled THEN metrics ELSE metrics + 1]_vars

\* The goals of the dispatched batch whose _run_goal has not returned.
Unfinished == {n \in Ids : task[n] \in {"created", "act", "propose"}}

\* C25: run makes no readiness pass and no next_batch call while a goal of
\* the batch it dispatched has not finished its _run_goal: the loop goes
\* on only when every task of the batch has ended, and a task is alive
\* only while run waits in gather (or has been ended by an exception).
C25_BatchBarrier ==
    /\ [][Iterate => Unfinished = {}]_vars
    /\ [][(pc = "gather" /\ pc' = "loop") =>
             \A i \in 1..Len(batch) : task[batch[i]] = "finished"]_vars
    /\ [](Unfinished # {} => pc \in {"gather", "crashed"})

\* One goal of a batch of two has finished while the other is still with
\* its worker, and run waits.
C25_Witness ==
    /\ pc = "gather"
    /\ Len(batch) = 2
    /\ \E i \in 1..2, j \in 1..2 : task[batch[i]] = "finished" /\ task[batch[j]] = "act"

\* The goals whose status is IN_PROGRESS.
InProgress == {n \in Nodes(order) : goal[n].status = IN_PROGRESS}

\* C26: at every point of a run at most batch_size goals are IN_PROGRESS,
\* and every goal that is IN_PROGRESS is in the batch being dispatched.
C26_InProgressWithinBatch ==
    pc # "build" =>
        /\ Cardinality(InProgress) <= batch_size
        /\ InProgress \subseteq Range(batch)

\* With batch_size = 1 and more than one goal READY, one goal is
\* IN_PROGRESS and another one waits for the next batch.
C26_Witness ==
    /\ pc = "gather"
    /\ batch_size = 1
    /\ Cardinality(InProgress) = 1
    /\ \E n \in Nodes(order) : goal[n].status = READY

\* The calls of _run_goal for one goal, in the order the claim gives them
\* (with the snapshots, the read of `world` and the event in between).
RunGoalSteps ==
    <<"mark_in_progress", "_write_state", "get", "act", "reflect", "mark_done", "append_log",
      "record_artifact", "_write_state", "propose_subgoals", "add_subgoals", "events.append">>

InsertionOrders(o) ==
    {p \in [1..Len(o) -> Range(o)] : Range(p) = Range(o)}

\* C28: what the goals of a batch do to the graph while the batch is in
\* flight is reconciled at the next readiness pass only.  A proposed
\* subgoal is inserted together with an edge from each dependency it
\* declares (unless add_dependency rejects one of them, which ends the
\* run), it is not in the batch nor given a task, and it changes no goal
\* and no edge that was there; the result of a worker changes the
\* status of its goal only; no status becomes READY while run waits for
\* the batch; and the statuses the next readiness pass computes are the
\* same for every order in which the nodes were inserted, so they do not
\* depend on the order in which the goals of the batch completed.
C28_MidBatchMutations ==
    /\ [][\A n \in Ids : \A list \in Proposals :
             ProposeReturns(n, list) =>
                 /\ \A i \in 1..Len(list) :
                       /\ HasGoal(goal', list[i].id)
                       /\ pc' # "crashed" =>
                             Range(list[i].dependencies) \subseteq Preds(succ', list[i].id)
                       /\ ~Contains(batch', list[i].id)
                       /\ task'[list[i].id] = NoTask
                 /\ \A m \in Nodes(order) : goal'[m] = goal[m]
                 /\ Edges(succ) \subseteq Edges(succ')]_vars
    /\ [][\A n \in Ids, success \in BOOLEAN :
             ActReturns(n, success) =>
                 /\ \A m \in Ids \ {n} : goal'[m] = goal[m]
                 /\ order' = order
                 /\ succ' = succ]_vars
    /\ [][pc = "gather" =>
             /\ \A m \in Ids : goal'[m].status = READY => goal[m].status = READY
             /\ pc' = "gather" => batch' = batch]_vars
    /\ [](pc = "loop" =>
             LET r == recompute_readiness(order, goal, succ)
             IN r.err = "none" =>
                   \A p \in InsertionOrders(order) :
                       recompute_readiness(p, goal, succ) = r)

\* While a goal of the batch is still with its worker, another goal of the
\* batch has inserted a subgoal that depends on it.
C28_Witness ==
    /\ pc = "gather"
    /\ Len(batch) = 2
    /\ \E n \in Ids, s \in Ids :
          /\ task[n] = "act"
          /\ HasGoal(goal, s)
          /\ ~Contains(batch, s)
          /\ goal[s].dependencies = <<n>>
          /\ n \in Preds(succ, s)

\* Caller c is inside the critical section of its operation.
InSection(c) == at[c] \in {"locked", "persist", "release"}

\* C29: at most one of get, set, append_log, record_artifact and
\* bump_metric is inside its critical section at any time, and its caller
\* holds the lock; no operation reads, changes or persists the state while
\* another one is between its change and the end of its persist.
C29_StoreOperationsSerialized ==
    /\ [](\A c \in Callers, d \in Callers : (InSection(c) /\ InSection(d)) => c = d)
    /\ [](\A c \in Callers : InSection(c) => lock = c)
    /\ [][\A c \in Callers :
             (Mutate(c) \/ PersistCall(c)) =>
                 \A d \in Callers \ {c} : at[d] \notin {"locked", "persist", "release"}]_vars

\* One caller has changed the state and not yet persisted it, while
\* another caller waits for the lock.
C29_Witness ==
    \E c \in Callers, d \in Callers :
        /\ at[c] = "persist"
        /\ at[d] = "acquire"
        /\ call[c][1] = "append_log"
        /\ call[d][1] = "get"

\* Sequence a is a prefix of sequence b.
IsPrefix(a, b) == Len(a) <= Len(b) /\ SubSeq(b, 1, Len(a)) = a

\* C30: the log is append-only: for every operation of the store (get,
\* set, append_log, record_artifact, bump_metric, export_logs) the log
\* before the operation is a prefix of the log after it; append_log adds
\* exactly one record, at the end; export_logs returns the records of the
\* log and changes nothing in the store.
C30_LogsAppendOnly ==
    /\ [][op' \in StoreMutators \cup {"get", "export_logs"} =>
             IsPrefix(mem.logs, mem'.logs)]_vars
    /\ [][\A item \in LogItems : AppendLog(item) => mem'.logs = Append(mem.logs, item)]_vars
    /\ [][ExportLogs => (ret' = mem.logs /\ mem' = mem /\ disk' = disk)]_vars

\* C31: bump_metric(name, delta) sets metrics[name] to the value it had (0
\* when the name was absent) plus delta, and no operation of the store
\* lowers the value of a metric or removes one.
C31_MetricsMonotonic ==
    /\ [][\A name \in MetricNames, inc \in Deltas :
             BumpMetric(name, inc) =>
                 mem'.metrics[name] = DictGet(mem.metrics, name, 0) + inc]_vars
    /\ [][op' \in StoreMutators \cup {"get", "export_logs"} =>
             \A name \in DOMAIN mem.metrics :
                 /\ name \in DOMAIN mem'.metrics
                 /\ mem'.metrics[name] >= mem.metrics[name]]_vars

\* The file at the path cannot be read as a JSON object.
Unreadable(d) == d.kind \in {"missing", "corrupt", "nondict"}

\* C32: a missing or corrupt file at the path is treated as empty and is
\* never fatal: a store constructed on it holds empty logs, artifacts and
\* metrics and its construction does not raise; a persist over it raises
\* nothing on account of the file, and when it writes, the document holds
\* the three namespaces of the store and no other key.
C32_UnreadableFileIsEmpty ==
    /\ [][(NewStore /\ Unreadable(disk)) =>
             (mem' = EmptyStore /\ err' = "none" /\ disk' = disk)]_vars
    /\ [][(op' \in StoreMutators /\ Unreadable(disk)) =>
             /\ err' \in {"none", "OSError", "TypeError"}
             /\ err' = "TypeError" => ~Serializable(mem')
             /\ err' = "none" =>
                   /\ disk'.kind = "dict"
                   /\ disk'.logs_t = "list"
                   /\ disk'.artifacts_t = "dict"
                   /\ disk'.metrics_t = "dict"
                   /\ disk'.metrics = mem'.metrics
                   /\ Len(disk'.logs) = Len(mem'.logs)
                   /\ DOMAIN disk'.artifacts = DOMAIN mem'.artifacts
                   /\ disk'.goals = "absent"
                   /\ disk'.other = "absent"]_vars

\* A store has been constructed on a file that is not JSON.
C32_Witness ==
    /\ op = "new_store"
    /\ disk.kind = "corrupt"
    /\ mem = EmptyStore
    /\ err = "none"

\* C33: Orchestrator.add_goal and Orchestrator.add_dependency each append
\* exactly one event to the event log for a call that succeeds, after the
\* events of the calls before it, and none for a call the graph rejects.
C33_OneEventPerCall ==
    /\ [][\A id \in Ids, deps \in DependencyChoices :
             OrchAddGoal(id, MEDIUM, deps) =>
                 /\ Contains(order', id)
                 /\ goal'[id] = Goal(MEDIUM, deps)
                 /\ events' = Append(events, [type |-> "GOAL_ADDED", goal |-> id])]_vars
    /\ [][\A a \in Ids, b \in Ids :
             OrchAddDependency(a, b) =>
                 /\ b \in Preds(succ', a)
                 /\ IF err' = "none"
                    THEN /\ Len(events') = Len(events) + 1
                         /\ SubSeq(events', 1, Len(events)) = events
                    ELSE events' = events]_vars

\* The number of times _run_goal has called act for a goal.
ActCalls(n) == Cardinality({i \in 1..Len(steps[n]) : steps[n][i] = "act"})

\* C34: within one run each goal is passed to act at most once: a goal of
\* a batch has never been dispatched before, whatever the results returned
\* and the subgoals proposed so far.
C34_ActAtMostOnce ==
    /\ [](\A n \in Ids : ActCalls(n) <= 1)
    /\ [][pc = "loop" /\ pc' = "gather" =>
              \A i \in 1..Len(batch') : steps[batch'[i]] = <<>>]_vars

\* A later batch is running after a goal failed and a subgoal was proposed.
C34_Witness ==
    /\ pc = "gather"
    /\ subs = 1
    /\ \E n \in Ids, m \in Ids :
          /\ ~Contains(batch, n)
          /\ ActCalls(n) = 1
          /\ goal[n].status = FAILED
          /\ Contains(batch, m)
          /\ ActCalls(m) = 1

\* run has been entered (and has returned or raised, or has not).
Running == pc # "build"

\* C35: during run, a goal that is IN_PROGRESS or DONE has every graph
\* predecessor DONE, and a DONE goal stays DONE.
C35_PredecessorsDone ==
    /\ [](Running =>
             \A n \in Ids :
                 goal[n].status \in {IN_PROGRESS, DONE} =>
                     \A p \in Preds(succ, n) : goal[p].status = DONE)
    /\ [][Running =>
              \A p \in Ids : goal[p].status = DONE => goal'[p].status = DONE]_vars

\* A goal is in progress, and another is done, each behind a predecessor.
C35_Witness ==
    /\ pc = "gather"
    /\ \E n \in Ids, p \in Ids, m \in Ids :
          /\ goal[n].status = IN_PROGRESS
          /\ p \in Preds(succ, n)
          /\ goal[p].status = DONE
          /\ p \in Preds(succ, m)
          /\ goal[m].status = DONE

\* run is at the top of its loop after a pass that found an empty batch.
Idling == pc = "loop" /\ idle_loops > 0

RECURSIVE Downstream(_, _)
Downstream(s, S) ==
    LET T == S \cup {v \in Ids : \E u \in S : Contains(s[u], v)}
    IN IF T = S THEN S ELSE Downstream(s, T)

\* C37: during run a goal with a FAILED predecessor is never dispatched and
\* is PENDING until the stall policy fails it; when run has returned every
\* goal downstream of a FAILED goal is FAILED; and a subgoal that a failed
\* goal proposes with a dependency on itself is inserted PENDING behind it.
C37_FailurePropagates ==
    /\ [](Running =>
             \A b \in GoalNodes :
                 (\E p \in Preds(succ, b) : goal[p].status = FAILED) =>
                     /\ goal[b].status \in {PENDING, FAILED}
                     /\ goal[b].status = FAILED => Stalled
                     /\ steps[b] = <<>>
                     /\ task[b] = NoTask)
    /\ [](pc = "done" =>
             \A n \in GoalNodes :
                 goal[n].status = FAILED =>
                     \A m \in Downstream(succ, {n}) \cap GoalNodes : goal[m].status = FAILED)
    /\ [][\A n \in Ids : \A list \in Proposals :
              (ProposeReturns(n, list) /\ pc' # "crashed" /\ goal[n].status = FAILED) =>
                  \A i \in 1..Len(list) :
                      Contains(list[i].dependencies, n) =>
                          /\ n \in Preds(succ', list[i].id)
                          /\ goal'[list[i].id].status = PENDING]_vars

\* run has returned after a goal failed and proposed a subgoal depending on
\* it: the subgoal was never dispatched and the stall policy failed it.
C37_Witness ==
    /\ pc = "done"
    /\ subs = 1
    /\ \E n \in Ids :
          LET m == Len(order) IN
          /\ n # m
          /\ goal[n].status = FAILED
          /\ steps[n] = RunGoalSteps
          /\ goal[m].dependencies = <<n>>
          /\ n \in Preds(succ, m)
          /\ goal[m].status = FAILED
          /\ steps[m] = <<>>
          /\ \E i \in 1..Len(logs) : logs[i].goal = m /\ logs[i].note = "stalled/blocked"

====
